---- MODULE Spec2Model ----
(***************************************************************************)
(* Model of AmericanOptionCommodities.py: the Barone-Adesi/Whaley quadratic *)
(* approximation of American option prices on commodities.                  *)
(*                                                                          *)
(* Floating point numbers (numpy float64) are modelled as binary fixed      *)
(* point integers with F = H*H units per 1.0, together with three special   *)
(* values NaN, PosInf and NegInf that follow the IEEE rules numpy applies   *)
(* (division by zero gives an infinity, 0*inf and inf-inf give NaN, every   *)
(* comparison with NaN is false).  Zero is unsigned (+0).                   *)
(***************************************************************************)
EXTENDS Integers, Sequences, FiniteSets, TLC

\* ------------------------------------------------------------------------
\* numpy float64 arithmetic
\* ------------------------------------------------------------------------
H == 1024
F == H * H

NaN == 2147483647
PosInf == 2147483646
NegInf == -2147483646

IsNum(x) == x # NaN /\ x # PosInf /\ x # NegInf

Sgn(x) == IF x < 0 THEN -1 ELSE 1

Abs(x) == IF x < 0 THEN -x ELSE x

\* a*b/F for a, b >= 0, without leaving 32 bits
MulP(a, b) ==
    LET ah == a \div H
        al == a % H
        bh == b \div H
        bl == b % H
    IN  ah * bh + ((ah * bl + al * bh + ((al * bl) \div H)) \div H)

RECURSIVE DivStep(_, _, _)
\* floor(r * 4^k / b) for 0 <= r < b
DivStep(r, b, k) ==
    IF k = 0 THEN 0
    ELSE LET t == 4 * r
         IN  (t \div b) * (4 ^ (k - 1)) + DivStep(t % b, b, k - 1)

\* a*F/b for a >= 0, b > 0
DivP(a, b) == (a \div b) * F + DivStep(a % b, b, 10)

\* the float nearest to the decimal literal n/d
Lit(n, d) == Sgn(n) * DivP(Abs(n), d)

FNeg(a) ==
    IF a = NaN THEN NaN
    ELSE IF a = PosInf THEN NegInf
    ELSE IF a = NegInf THEN PosInf
    ELSE -a

FAbs(a) ==
    IF a = NaN THEN NaN
    ELSE IF a = NegInf THEN PosInf
    ELSE IF a = PosInf THEN PosInf
    ELSE Abs(a)

FAdd(a, b) ==
    IF IsNum(a) /\ IsNum(b) THEN a + b
    ELSE IF a = NaN \/ b = NaN THEN NaN
    ELSE IF IsNum(a) THEN b
    ELSE IF IsNum(b) THEN a
    ELSE IF a = b THEN a
    ELSE NaN

FSub(a, b) == FAdd(a, FNeg(b))

FMul(a, b) ==
    IF IsNum(a) /\ IsNum(b) THEN Sgn(a) * Sgn(b) * MulP(Abs(a), Abs(b))
    ELSE IF a = NaN \/ b = NaN THEN NaN
    ELSE IF a = 0 \/ b = 0 THEN NaN
    ELSE IF (a > 0) = (b > 0) THEN PosInf
    ELSE NegInf

FDiv(a, b) ==
    IF IsNum(a) /\ IsNum(b)
    THEN IF b # 0 THEN Sgn(a) * Sgn(b) * DivP(Abs(a), Abs(b))
         ELSE IF a = 0 THEN NaN
         ELSE IF a > 0 THEN PosInf
         ELSE NegInf
    ELSE IF a = NaN \/ b = NaN THEN NaN
    ELSE IF IsNum(a) THEN 0
    ELSE IF IsNum(b) THEN (IF (a > 0) = (b >= 0) THEN PosInf ELSE NegInf)
    ELSE NaN

\* a > b, a < b, a <= b: False as soon as one side is NaN
FGt(a, b) == a # NaN /\ b # NaN /\ a > b

FLt(a, b) == a # NaN /\ b # NaN /\ a < b

FLe(a, b) == a # NaN /\ b # NaN /\ a <= b

Ln2 == Lit(69314718, 100000000)

RECURSIVE ExpHorner(_, _, _)
\* 1 + r/1*(1 + r/2*(... (1 + r/k*acc))) for 0 <= r < ln 2
ExpHorner(r, k, acc) ==
    IF k = 0 THEN acc
    ELSE ExpHorner(r, k - 1, F + (MulP(r, acc) \div k))

\* e * 2^k
ExpScale(e, k) ==
    IF k < -21 THEN 0
    ELSE IF k >= 0 THEN e * (2 ^ k)
    ELSE e \div (2 ^ (-k))

\* exp(x) for x = k * ln 2 + r
ExpReduced(x, k) == ExpScale(ExpHorner(x - k * Ln2, 10, F), k)

ExpQ(x) == ExpReduced(x, x \div Ln2)

np_exp(x) ==
    IF x = NaN THEN NaN
    ELSE IF x = PosInf THEN PosInf
    ELSE IF x = NegInf THEN 0
    ELSE ExpQ(x)

\* 2*atanh(z) by its series, z2 = z*z
LnSeries(z, z2) ==
    LET t6 == F \div 13
        t5 == MulP(z2, t6) + (F \div 11)
        t4 == MulP(z2, t5) + (F \div 9)
        t3 == MulP(z2, t4) + (F \div 7)
        t2 == MulP(z2, t3) + (F \div 5)
        t1 == MulP(z2, t2) + (F \div 3)
        t0 == MulP(z2, t1) + F
    IN  2 * MulP(z, t0)

LnAtanh(z) == LnSeries(z, MulP(z, z))

\* ln m for F <= m < 2F, as 2*atanh((m-1)/(m+1))
LnMant(m) == LnAtanh(DivP(m - F, m + F))

RECURSIVE LnQ(_, _)
\* ln(x * 2^e) for x > 0
LnQ(x, e) ==
    IF x >= 2 * F THEN LnQ(x \div 2, e + 1)
    ELSE IF x < F THEN LnQ(2 * x, e - 1)
    ELSE e * Ln2 + LnMant(x)

np_log(x) ==
    IF x = NaN THEN NaN
    ELSE IF x = PosInf THEN PosInf
    ELSE IF x < 0 THEN NaN
    ELSE IF x = 0 THEN NegInf
    ELSE LnQ(x, 0)

RECURSIVE ISqrt(_, _)
\* Newton's integer square root, started at g >= sqrt(n), n >= 1
ISqrt(n, g) ==
    LET g2 == (g + (n \div g)) \div 2
    IN  IF g2 >= g THEN g ELSE ISqrt(n, g2)

\* y*y <= x*F
SqLeq(y, x) ==
    LET yh  == y \div H
        yl  == y % H
        mid == 2 * yh * yl + ((yl * yl) \div H)
        top == yh * yh + (mid \div H)
    IN  top < x \/ (top = x /\ mid % H = 0 /\ (yl * yl) % H = 0)

RECURSIVE SqrtSearch(_, _, _)
\* the largest y in lo..hi with y*y <= x*F
SqrtSearch(x, lo, hi) ==
    IF lo >= hi THEN lo
    ELSE LET m == (lo + hi + 1) \div 2
         IN  IF SqLeq(m, x) THEN SqrtSearch(x, m, hi)
             ELSE SqrtSearch(x, lo, m - 1)

SqrtQ(x) ==
    IF x = 0 THEN 0
    ELSE LET s == ISqrt(x, x) IN SqrtSearch(x, s * H, s * H + H)

np_sqrt(x) ==
    IF x = NaN THEN NaN
    ELSE IF x = PosInf THEN PosInf
    ELSE IF x < 0 THEN NaN
    ELSE SqrtQ(x)

\* exp(-ax*ax/2)/sqrt(2*pi) for ax >= 0
PdfAbs(ax) ==
    IF ax > 8 * F THEN 0
    ELSE MulP(Lit(39894228, 100000000), ExpQ(-(MulP(ax, ax) \div 2)))

\* scipy.stats.norm.pdf
PdfQ(x) == PdfAbs(Abs(x))

norm_pdf(x) ==
    IF x = NaN THEN NaN
    ELSE IF ~IsNum(x) THEN 0
    ELSE PdfQ(x)

\* the polynomial of Abramowitz and Stegun 26.2.17 in t, times pdf(ax)
CdfPoly(t, ax) ==
    LET p5 == FMul(t, Lit(133027443, 100000000))
        p4 == FMul(t, p5 - Lit(182125598, 100000000))
        p3 == FMul(t, p4 + Lit(178147794, 100000000))
        p2 == FMul(t, p3 - Lit(35656378, 100000000))
        p1 == FMul(t, p2 + Lit(31938153, 100000000))
    IN  MulP(PdfQ(ax), p1)

\* upper tail 1 - Phi(ax) for ax >= 0
CdfTail(ax) == CdfPoly(DivP(F, F + MulP(Lit(2316419, 10000000), ax)), ax)

\* Phi(x) from the upper tail at |x|
CdfSide(x, tail) == IF x >= 0 THEN F - tail ELSE tail

\* scipy.stats.norm.cdf
CdfQ(x) ==
    IF x > 8 * F THEN F
    ELSE IF x < -(8 * F) THEN 0
    ELSE CdfSide(x, CdfTail(Abs(x)))

norm_cdf(x) ==
    IF x = NaN THEN NaN
    ELSE IF x = PosInf THEN F
    ELSE IF x = NegInf THEN 0
    ELSE CdfQ(x)

\* base**q of two float64 values
FPow(base, q) ==
    IF base = NaN \/ q = NaN THEN NaN
    ELSE IF ~IsNum(base) \/ ~IsNum(q) THEN NaN
    ELSE IF base < 0 THEN NaN
    ELSE IF base = 0 THEN (IF q > 0 THEN 0 ELSE IF q = 0 THEN F ELSE PosInf)
    ELSE ExpQ(FMul(q, LnQ(base, 0)))

\* the hundredths nearest to down + rest/F, ties to the even hundredth
RoundCents(down, rest) ==
    IF 2 * rest > F THEN down + 1
    ELSE IF 2 * rest < F THEN down
    ELSE IF down % 2 = 0 THEN down
    ELSE down + 1

\* a >= 0 in hundredths, fr = (a % F) * 100
RoundAbs(a, fr) ==
    DivP(RoundCents((a \div F) * 100 + (fr \div F), fr % F), 100)

\* round(x, 2): to the nearest hundredth, ties to the even hundredth
Round2(x) ==
    IF ~IsNum(x) THEN x
    ELSE Sgn(x) * RoundAbs(Abs(x), (Abs(x) % F) * 100)

\* ------------------------------------------------------------------------
\* The functions of AmericanOptionCommodities.py
\* ------------------------------------------------------------------------

\* np.roots([1, b, c]): raises LinAlgError on a non-finite coefficient, strips
\* a trailing zero coefficient, otherwise returns the two eigenvalues of the
\* companion matrix, here (larger, smaller) as the unpacking [q_2, q_1]
\* expects (c <= 0 for every modelled input, so both are real)
\* the eigenvalues (-b + s)/2 and (-b - s)/2, s the root of the discriminant
Eigenvalues(b, s) ==
    <<FDiv(FAdd(FNeg(b), s), 2 * F), FDiv(FSub(FNeg(b), s), 2 * F)>>

np_roots(b, c) ==
    IF ~IsNum(b) \/ ~IsNum(c)
    THEN [exc |-> "LinAlgError", r |-> <<>>]
    ELSE IF c = 0
    THEN [exc |-> "none", r |-> <<FNeg(b), 0>>]
    ELSE [exc |-> "none",
          r   |-> Eigenvalues(b, np_sqrt(FSub(FMul(b, b), FMul(4 * F, c))))]

\* dK= 1 - np.exp(-dr*dT)
RootsK(dr, dT) == FSub(F, np_exp(FMul(FNeg(dr), dT)))

\* [q_2, q_1]= np.roots(coeff); return [q_1, q_2]
Unpack(e) ==
    IF e.exc # "none" THEN [exc |-> e.exc, q |-> <<>>]
    ELSE [exc |-> "none", q |-> <<e.r[2], e.r[1]>>]

\* roots(db, dr, dT, ds): [q_1, q_2] of equation (13)
roots(db, dr, dT, ds) ==
    LET dN == FDiv(FMul(2 * F, db), FMul(ds, ds))
        dM == FDiv(FMul(2 * F, dr), FMul(ds, ds))
        dK == RootsK(dr, dT)
        b  == FSub(dN, F)
        c  == FNeg(FDiv(dM, dK))
    IN  Unpack(np_roots(b, c))

\* the seeds from the critical prices at infinite maturity and
\* vol = 2*ds*np.sqrt(dT)
Seeds(dCall_S_inf, dPut_S_inf, vol, db, dT, iX) ==
    LET dh_1 == FMul(FSub(FMul(db, dT), vol),
                     FDiv(iX, FSub(iX, dPut_S_inf)))
        dh_2 == FMul(FNeg(FAdd(FMul(db, dT), vol)),
                     FDiv(iX, FSub(dCall_S_inf, iX)))
        dCall_seed == FAdd(iX, FMul(FSub(dCall_S_inf, iX),
                                    FSub(F, np_exp(dh_2))))
        dPut_seed  == FAdd(dPut_S_inf, FMul(FSub(iX, dPut_S_inf),
                                            np_exp(dh_1)))
    IN  <<dCall_seed, dPut_seed>>

\* SeedPrices(lq_inf, db, dT, ds, iX): [dCall_seed, dPut_seed]
SeedPrices(lq_inf, db, dT, ds, iX) ==
    Seeds(FDiv(iX, FSub(F, FDiv(F, lq_inf[2]))),
          FDiv(iX, FSub(F, FDiv(F, lq_inf[1]))),
          FMul(FMul(2 * F, ds), np_sqrt(dT)), db, dT, iX)

\* d_1= (np.log(S/iX) + (db + 0.5*ds**2)*dT)/(ds*np.sqrt(dT))
D1(S, iX, db, ds, dT) ==
    FDiv(FAdd(np_log(FDiv(S, iX)),
              FMul(FAdd(db, FMul(F \div 2, FMul(ds, ds))), dT)),
         FMul(ds, np_sqrt(dT)))

\* d_2= d_1 - ds*np.sqrt(dT)
D2(d_1, ds, dT) == FSub(d_1, FMul(ds, np_sqrt(dT)))

\* eq (5): the European call at S
EU_Call(S, d_1, d_2, iX, db, dT, dr) ==
    FSub(FMul(FMul(S, np_exp(FMul(FSub(db, dr), dT))), norm_cdf(d_1)),
         FMul(FMul(iX, np_exp(FMul(FNeg(dr), dT))), norm_cdf(d_2)))

\* eq (6): the European put at S
EU_Put(S, d_1, d_2, iX, db, dT, dr) ==
    FSub(FMul(FMul(iX, np_exp(FMul(FNeg(dr), dT))), norm_cdf(FNeg(d_2))),
         FMul(FMul(S, np_exp(FMul(FSub(db, dr), dT))), norm_cdf(FNeg(d_1))))

\* np.exp((db-dr)*dT)*st.norm.pdf(d)/ds*np.sqrt(dT), evaluated left to right
SlopeDensity(d, db, ds, dT, dr) ==
    FMul(FDiv(FMul(np_exp(FMul(FSub(db, dr), dT)), norm_pdf(d)), ds),
         np_sqrt(dT))

\* db_i of eq (27), for the root q and d = d_1 (call) or -d_1 (put)
Slope(d, q, db, ds, dT, dr) ==
    FAdd(FMul(FMul(np_exp(FMul(FSub(db, dr), dT)), norm_cdf(d)),
              FSub(F, FDiv(F, q))),
         FDiv(FSub(F, SlopeDensity(d, db, ds, dT, dr)), q))

\* 0.00001
Tolerance == Lit(1, 100000)

\* dError, and the update of dCrit_Call from dRHS and the slope db_i
CallUpdate(dRHS, db_i, dCrit_Call, iX) ==
    [dError |-> FDiv(FAbs(FSub(FSub(dCrit_Call, iX), dRHS)), iX),
     db_i   |-> db_i,
     dCrit  |-> FDiv(FSub(FAdd(iX, dRHS), FMul(db_i, dCrit_Call)),
                     FSub(F, db_i))]

\* dRHS and db_i at d_1
CallAt(d_1, dCrit_Call, dq_2, iX, db, ds, dT, dr) ==
    CallUpdate(FAdd(EU_Call(dCrit_Call, d_1, D2(d_1, ds, dT), iX, db, dT, dr),
                    FDiv(FMul(FSub(F, FMul(np_exp(FMul(FSub(db, dr), dT)),
                                           norm_cdf(d_1))),
                              dCrit_Call),
                         dq_2)),
               Slope(d_1, dq_2, db, ds, dT, dr), dCrit_Call, iX)

\* one pass through the body of the while loop of Critical_Call_Price
CallBody(dCrit_Call, dq_2, iX, db, ds, dT, dr) ==
    CallAt(D1(dCrit_Call, iX, db, ds, dT), dCrit_Call, dq_2, iX, db, ds, dT, dr)

\* dError, and the update of dCrit_Put from dRHS and the slope db_i
PutUpdate(dRHS, db_i, dCrit_Put, iX) ==
    [dError |-> FDiv(FAbs(FSub(FSub(iX, dCrit_Put), dRHS)), iX),
     db_i   |-> db_i,
     dCrit  |-> FDiv(FSub(FAdd(iX, FMul(db_i, dCrit_Put)), dRHS),
                     FAdd(F, db_i))]

\* dRHS and db_i at d_1
PutAt(d_1, dCrit_Put, dq_1, iX, db, ds, dT, dr) ==
    PutUpdate(FSub(EU_Put(dCrit_Put, d_1, D2(d_1, ds, dT), iX, db, dT, dr),
                   FDiv(FMul(FSub(F, FMul(np_exp(FMul(FSub(db, dr), dT)),
                                          norm_cdf(FNeg(d_1)))),
                             dCrit_Put),
                        dq_1)),
              Slope(FNeg(d_1), dq_1, db, ds, dT, dr), dCrit_Put, iX)

\* one pass through the body of the while loop of Critical_Put_Price
PutBody(dCrit_Put, dq_1, iX, db, ds, dT, dr) ==
    PutAt(D1(dCrit_Put, iX, db, ds, dT), dCrit_Put, dq_1, iX, db, ds, dT, dr)

RECURSIVE CallWhile(_, _, _, _, _, _, _)
\* while dError > 0.00001: ... ; return dCrit_Call, for the locals it
CallWhile(it, dq_2, iX, db, ds, dT, dr) ==
    IF FGt(it.dError, Tolerance)
    THEN CallWhile(CallBody(it.dCrit, dq_2, iX, db, ds, dT, dr),
                   dq_2, iX, db, ds, dT, dr)
    ELSE it.dCrit

RECURSIVE PutWhile(_, _, _, _, _, _, _)
\* while dError > 0.00001: ... ; return dCrit_Put, for the locals it
PutWhile(it, dq_1, iX, db, ds, dT, dr) ==
    IF FGt(it.dError, Tolerance)
    THEN PutWhile(PutBody(it.dCrit, dq_1, iX, db, ds, dT, dr),
                  dq_1, iX, db, ds, dT, dr)
    ELSE it.dCrit

\* Critical_Call_Price(lSeedPrices, lq, iX, db, ds, dT, dr), where it returns
Critical_Call_Price(lSeedPrices, lq, iX, db, ds, dT, dr) ==
    CallWhile([dError |-> F, dCrit |-> lSeedPrices[1]],
              lq[2], iX, db, ds, dT, dr)

\* Critical_Put_Price(lSeedPrices, lq, iX, db, ds, dT, dr), where it returns
Critical_Put_Price(lSeedPrices, lq, iX, db, ds, dT, dr) ==
    PutWhile([dError |-> F, dCrit |-> lSeedPrices[2]],
             lq[1], iX, db, ds, dT, dr)

\* dA_1= -(dCrit_Put/dq_1)*(1 - np.exp((db-dr)*dT)*st.norm.cdf(-d_1))
PutA1(d_1, dq_1, dCrit_Put, db, dT, dr) ==
    FNeg(FMul(FDiv(dCrit_Put, dq_1),
              FSub(F, FMul(np_exp(FMul(FSub(db, dr), dT)),
                           norm_cdf(FNeg(d_1))))))

\* dEU_Put at the spot dS, d_1S its d_1
PutEU(dS, d_1S, iX, db, ds, dT, dr) ==
    EU_Put(dS, d_1S, D2(d_1S, ds, dT), iX, db, dT, dr)

\* the two if statements of American_Put and its return
PutBranches(dS, dq_1, dCrit_Put, iX, dA_1, dEU_Put) ==
    IF FLe(dS, dCrit_Put)
    THEN [exc |-> "none", ret |-> <<dEU_Put, FSub(iX, dS)>>]
    ELSE IF FGt(dS, dCrit_Put)
    THEN [exc |-> "none",
          ret |-> <<dEU_Put,
                    FAdd(dEU_Put,
                         FMul(dA_1, FPow(FDiv(dS, dCrit_Put), dq_1)))>>]
    ELSE [exc |-> "UnboundLocalError", ret |-> <<>>]

\* American_Put(dS, lq, dCrit_Put, iX, db, ds, dT, dr): [dEU_Put, dAme_Put],
\* or UnboundLocalError when neither if statement assigns dAme_Put
American_Put(dS, lq, dCrit_Put, iX, db, ds, dT, dr) ==
    PutBranches(dS, lq[1], dCrit_Put, iX,
                PutA1(D1(dCrit_Put, iX, db, ds, dT), lq[1], dCrit_Put,
                      db, dT, dr),
                PutEU(dS, D1(dS, iX, db, ds, dT), iX, db, ds, dT, dr))

\* dA_2= (dCrit_Call/dq_2)*(1 - np.exp((db-dr)*dT)*st.norm.cdf(d_1))
CallA2(d_1, dq_2, dCrit_Call, db, dT, dr) ==
    FMul(FDiv(dCrit_Call, dq_2),
         FSub(F, FMul(np_exp(FMul(FSub(db, dr), dT)), norm_cdf(d_1))))

\* dEU_Call at the spot dS, d_1S its d_1
CallEU(dS, d_1S, iX, db, ds, dT, dr) ==
    EU_Call(dS, d_1S, D2(d_1S, ds, dT), iX, db, dT, dr)

\* the two if statements of American_Call and its return
CallBranches(dS, dq_2, dCrit_Call, iX, dA_2, dEU_Call) ==
    IF FGt(dS, dCrit_Call)
    THEN [exc |-> "none", ret |-> <<dS, dEU_Call, FSub(dS, iX)>>]
    ELSE IF FLt(dS, dCrit_Call)
    THEN [exc |-> "none",
          ret |-> <<dS, dEU_Call,
                    FAdd(dEU_Call,
                         FMul(dA_2, FPow(FDiv(dS, dCrit_Call), dq_2)))>>]
    ELSE [exc |-> "UnboundLocalError", ret |-> <<>>]

\* American_Call(dS, lq, dCrit_Call, iX, db, ds, dT, dr):
\* [dS, dEU_Call, dAme_Call], or UnboundLocalError when neither if statement
\* assigns dAme_Call
American_Call(dS, lq, dCrit_Call, iX, db, ds, dT, dr) ==
    CallBranches(dS, lq[2], dCrit_Call, iX,
                 CallA2(D1(dCrit_Call, iX, db, ds, dT), lq[2], dCrit_Call,
                        db, dT, dr),
                 CallEU(dS, D1(dS, iX, db, ds, dT), iX, db, ds, dT, dr))

\* ------------------------------------------------------------------------
\* Ame_Option_Price(vT, vr, vs, db, iX, vS) as a state machine
\* ------------------------------------------------------------------------

\* longest scenario list and longest spot list given to Ame_Option_Price
MaxScenarios == 2
MaxSpots == 2

\* a local variable that has not been assigned yet
Unbound == -2147483647

\* the (dT, dr, ds) triples the scenario arrays are drawn from:
\*   an ordinary scenario with dT = 1, an ordinary one with dT = 4,
\*   one with dr = db (the infinite-maturity root q_2 is exactly 1),
\*   one with a very high volatility, and one with dr = 0
Scenarios ==
    { [T |-> F,     r |-> F \div 2,  s |-> F],
      [T |-> 4 * F, r |-> F \div 4,  s |-> F \div 2],
      [T |-> 4 * F, r |-> F \div 16, s |-> F],
      [T |-> F,     r |-> F \div 8,  s |-> 2 * F],
      [T |-> F,     r |-> 0,         s |-> F \div 2] }

\* the cost of carry and the exercise price Ame_Option_Price is called with
CarryCosts == { F \div 16 }
Strikes == { 10 * F }

\* the critical call price the code computes for scenario sc
CallBoundary(b, X, sc) ==
    LET lqi == roots(b, sc.r, PosInf, sc.s).q
        lsp == SeedPrices(lqi, b, sc.T, sc.s, X)
        lqf == roots(b, sc.r, sc.T, sc.s).q
    IN  Critical_Call_Price(lsp, lqf, X, b, sc.s, sc.T, sc.r)

\* the commodity prices the spot array is drawn from: one below every
\* critical call price, one above, and one exactly on the critical call price
\* of the first scenario
Spots(b, X) ==
    { X \div 2, 3 * X,
      CallBoundary(b, X, [T |-> F, r |-> F \div 2, s |-> F]) }

VARIABLES
    db, iX, vT, vr, vs, vS,       \* the arguments
    pc,                           \* the statement reached
    i, j,                         \* the loop indices (1-based, 0 before)
    lq_inf, lSeedPrices, lq,      \* locals of Ame_Option_Price
    dCrit_Call, dCrit_Put,
    lAme_Call, lAme_Put,
    dCrit, dError, db_i,          \* locals of the running critical price solver
    dMeasured,                    \* history: the iterate dError was measured at
    seen,                         \* history: the iterates a pass has started at
    result,                       \* the value returned, <<>> before
    exc,                          \* the exception raised, "none" before
    log                           \* history: the calls made, in order

vars == <<db, iX, vT, vr, vs, vS, pc, i, j, lq_inf, lSeedPrices, lq,
          dCrit_Call, dCrit_Put, lAme_Call, lAme_Put, dCrit, dError, db_i,
          dMeasured, seen, result, exc, log>>

args == <<db, iX, vT, vr, vs, vS>>
solver == <<dCrit, dError, db_i, dMeasured, seen>>

\* dT= vT[i], dr= vr[i], ds= vs[i]
dT == vT[i]
dr == vr[i]
ds == vs[i]

\* the lists of n pairwise different elements of S: the scenarios of a batch
\* differ from one another, and so do its spots
Distinct(n, S) ==
    { f \in [1..n -> S] : \A a, b \in 1..n : a # b => f[a] # f[b] }

Init ==
    /\ db \in CarryCosts
    /\ iX \in Strikes
    /\ \E n \in 0..MaxScenarios :
         \E f \in Distinct(n, Scenarios) :
            /\ vT = [k \in 1..n |-> f[k].T]
            /\ vr = [k \in 1..n |-> f[k].r]
            /\ vs = [k \in 1..n |-> f[k].s]
    /\ \E n \in 0..MaxSpots : vS \in Distinct(n, Spots(db, iX))
    /\ pc = "for_i"
    /\ i = 0
    /\ j = 0
    /\ lq_inf = <<>>
    /\ lSeedPrices = <<>>
    /\ lq = <<>>
    /\ dCrit_Call = Unbound
    /\ dCrit_Put = Unbound
    /\ lAme_Call = <<>>
    /\ lAme_Put = <<>>
    /\ dCrit = Unbound
    /\ dError = Unbound
    /\ db_i = Unbound
    /\ dMeasured = Unbound
    /\ seen = {}
    /\ result = <<>>
    /\ exc = "none"
    /\ log = <<>>

Event(op, a, r, e) ==
    [op |-> op, i |-> i, j |-> j, arg |-> a, ret |-> r, exc |-> e]

\* an exception leaves Ame_Option_Price: nothing is returned
Raise(e) ==
    /\ pc' = "raised"
    /\ exc' = e
    /\ result' = <<>>

\* for i in range(len(vT)): the next scenario
NextScenario ==
    /\ pc = "for_i"
    /\ i < Len(vT)
    /\ i' = i + 1
    /\ pc' = "roots_inf"
    /\ UNCHANGED <<args, j, lq_inf, lSeedPrices, lq, dCrit_Call, dCrit_Put,
                   lAme_Call, lAme_Put, solver, result, exc, log>>

\* lq_inf= e, the outcome of roots(db, dr, np.inf, ds)
AssignRootsInf(e) ==
    /\ log' = Append(log, Event("roots_inf", <<dr, ds>>, e.q, e.exc))
    /\ IF e.exc # "none"
       THEN Raise(e.exc) /\ UNCHANGED lq_inf
       ELSE /\ lq_inf' = e.q
            /\ pc' = "SeedPrices"
            /\ UNCHANGED <<result, exc>>

\* lq_inf= roots(db, dr, np.inf, ds)
RootsInf ==
    /\ pc = "roots_inf"
    /\ AssignRootsInf(roots(db, dr, PosInf, ds))
    /\ UNCHANGED <<args, i, j, lSeedPrices, lq, dCrit_Call, dCrit_Put,
                   lAme_Call, lAme_Put, solver>>

\* lSeedPrices= SeedPrices(lq_inf, db, dT, ds, iX)
Seed ==
    /\ pc = "SeedPrices"
    /\ lSeedPrices' = SeedPrices(lq_inf, db, dT, ds, iX)
    /\ log' = Append(log, Event("SeedPrices", lq_inf, lSeedPrices', "none"))
    /\ pc' = "roots"
    /\ UNCHANGED <<args, i, j, lq_inf, lq, dCrit_Call, dCrit_Put,
                   lAme_Call, lAme_Put, solver, result, exc>>

\* lq= e, the outcome of roots(db, dr, dT, ds)
AssignRoots(e) ==
    /\ log' = Append(log, Event("roots", <<dr, ds, dT>>, e.q, e.exc))
    /\ IF e.exc # "none"
       THEN Raise(e.exc) /\ UNCHANGED lq
       ELSE /\ lq' = e.q
            /\ pc' = "Critical_Call_Price"
            /\ UNCHANGED <<result, exc>>

\* lq= roots(db, dr, dT, ds)
Roots ==
    /\ pc = "roots"
    /\ AssignRoots(roots(db, dr, dT, ds))
    /\ UNCHANGED <<args, i, j, lq_inf, lSeedPrices, dCrit_Call, dCrit_Put,
                   lAme_Call, lAme_Put, solver>>

\* Critical_Call_Price is entered: [dCrit_Call, dCrit_Put]= lSeedPrices,
\* dError= 1
CallEnter ==
    /\ pc = "Critical_Call_Price"
    /\ dCrit' = lSeedPrices[1]
    /\ dError' = F
    /\ db_i' = Unbound
    /\ dMeasured' = Unbound
    /\ seen' = {}
    /\ pc' = "call_while"
    /\ UNCHANGED <<args, i, j, lq_inf, lSeedPrices, lq, dCrit_Call, dCrit_Put,
                   lAme_Call, lAme_Put, result, exc, log>>

\* the assignments of one pass through a loop body
AssignBody(it) ==
    /\ dError' = it.dError
    /\ db_i' = it.db_i
    /\ dCrit' = it.dCrit

\* while dError > 0.00001: one more pass through the loop body
CallIterate ==
    /\ pc = "call_while"
    /\ FGt(dError, Tolerance)
    /\ AssignBody(CallBody(dCrit, lq[2], iX, db, ds, dT, dr))
    /\ dMeasured' = dCrit
    /\ seen' = seen \cup {dCrit}
    /\ UNCHANGED <<args, pc, i, j, lq_inf, lSeedPrices, lq, dCrit_Call,
                   dCrit_Put, lAme_Call, lAme_Put, result, exc, log>>

\* the loop condition fails: return dCrit_Call
CallReturn ==
    /\ pc = "call_while"
    /\ ~FGt(dError, Tolerance)
    /\ dCrit_Call' = dCrit
    /\ log' = Append(log, Event("Critical_Call_Price",
                                <<lSeedPrices[1], lq[2]>>, <<dCrit>>, "none"))
    /\ pc' = "Critical_Put_Price"
    /\ UNCHANGED <<args, i, j, lq_inf, lSeedPrices, lq, dCrit_Put,
                   lAme_Call, lAme_Put, solver, result, exc>>

\* Critical_Put_Price is entered
PutEnter ==
    /\ pc = "Critical_Put_Price"
    /\ dCrit' = lSeedPrices[2]
    /\ dError' = F
    /\ db_i' = Unbound
    /\ dMeasured' = Unbound
    /\ seen' = {}
    /\ pc' = "put_while"
    /\ UNCHANGED <<args, i, j, lq_inf, lSeedPrices, lq, dCrit_Call, dCrit_Put,
                   lAme_Call, lAme_Put, result, exc, log>>

\* while dError > 0.00001: one more pass through the loop body
PutIterate ==
    /\ pc = "put_while"
    /\ FGt(dError, Tolerance)
    /\ AssignBody(PutBody(dCrit, lq[1], iX, db, ds, dT, dr))
    /\ dMeasured' = dCrit
    /\ seen' = seen \cup {dCrit}
    /\ UNCHANGED <<args, pc, i, j, lq_inf, lSeedPrices, lq, dCrit_Call,
                   dCrit_Put, lAme_Call, lAme_Put, result, exc, log>>

\* the loop condition fails: return dCrit_Put; the spot loop starts
PutReturn ==
    /\ pc = "put_while"
    /\ ~FGt(dError, Tolerance)
    /\ dCrit_Put' = dCrit
    /\ log' = Append(log, Event("Critical_Put_Price",
                                <<lSeedPrices[2], lq[1]>>, <<dCrit>>, "none"))
    /\ j' = 0
    /\ pc' = "for_j"
    /\ UNCHANGED <<args, i, lq_inf, lSeedPrices, lq, dCrit_Call,
                   lAme_Call, lAme_Put, solver, result, exc>>

\* the record of a pricer called for spot j' with the arguments a
Called(op, a, out) ==
    [op |-> op, i |-> i, j |-> j', arg |-> a, ret |-> out.ret, exc |-> out.exc]

\* American_Call(dS, lq, dCrit_Call, iX, db, ds, dT, dr), as called for a spot
CallPricer(dS, q, c) ==
    Called("American_Call", <<dS, q, c>>,
           American_Call(dS, q, c, iX, db, ds, dT, dr))

\* American_Put(dS, lq, dCrit_Put, iX, db, ds, dT, dr), as called for a spot
PutPricer(dS, q, c) ==
    Called("American_Put", <<dS, q, c>>,
           American_Put(dS, q, c, iX, db, ds, dT, dr))

\* lAme_Call.append(...); lAme_Put.append(...) for the calls ec and ep (the
\* call pricer runs first: when it raises, the put pricer is never called)
AppendPrices(ec, ep) ==
    IF ec.exc # "none"
    THEN /\ Raise(ec.exc)
         /\ log' = Append(log, ec)
         /\ UNCHANGED <<lAme_Call, lAme_Put>>
    ELSE /\ lAme_Call' = Append(lAme_Call, ec.ret)
         /\ log' = Append(Append(log, ec), ep)
         /\ IF ep.exc # "none"
            THEN Raise(ep.exc) /\ UNCHANGED lAme_Put
            ELSE /\ lAme_Put' = Append(lAme_Put, ep.ret)
                 /\ UNCHANGED <<pc, result, exc>>

\* PriceSpot with the infinite-maturity root pair handed to the pricers
PriceSpotAsymptotic ==
    /\ pc = "for_j"
    /\ j < Len(vS)
    /\ j' = j + 1
    /\ AppendPrices(CallPricer(vS[j'], lq_inf, dCrit_Call),
                    PutPricer(vS[j'], lq_inf, dCrit_Put))
    /\ UNCHANGED <<args, i, lq_inf, lSeedPrices, lq, dCrit_Call, dCrit_Put,
                   solver>>

\* for j in range(len(vS)): both pricers are called for vS[j] and their
\* results appended
PriceSpot ==
    /\ pc = "for_j"
    /\ j < Len(vS)
    /\ j' = j + 1
    /\ AppendPrices(CallPricer(vS[j'], lq, dCrit_Call),
                    PutPricer(vS[j'], lq, dCrit_Put))
    /\ UNCHANGED <<args, i, lq_inf, lSeedPrices, lq, dCrit_Call, dCrit_Put,
                   solver>>

\* the spot loop is exhausted: back to the scenario loop
SpotsDone ==
    /\ pc = "for_j"
    /\ j = Len(vS)
    /\ pc' = "for_i"
    /\ UNCHANGED <<args, i, j, lq_inf, lSeedPrices, lq, dCrit_Call, dCrit_Put,
                   lAme_Call, lAme_Put, solver, result, exc, log>>

\* Column with the rows taken last to first
ColumnBackwards(rows, k) == [n \in 1..Len(rows) |-> rows[Len(rows) + 1 - n][k]]

\* column k of the transposed list of rows
Column(rows, k) == [n \in 1..Len(rows) |-> rows[n][k]]

\* [round(x,2) for x in col]
Rounded(col) == [n \in 1..Len(col) |-> Round2(col[n])]

\* the scenario loop is exhausted: transpose, index the columns, round,
\* return [lS, lEU_Call, lAme_Call, lEU_Put, lAme_Put]; indexing the
\* transpose of an empty list raises IndexError
Finish ==
    /\ pc = "for_i"
    /\ i = Len(vT)
    /\ IF lAme_Call = <<>>
       THEN Raise("IndexError")
       ELSE /\ result' = << Column(lAme_Call, 1),
                            Rounded(Column(lAme_Call, 2)),
                            Rounded(Column(lAme_Call, 3)),
                            Rounded(Column(lAme_Put, 1)),
                            Rounded(Column(lAme_Put, 2)) >>
            /\ pc' = "returned"
            /\ UNCHANGED exc
    /\ UNCHANGED <<args, i, j, lq_inf, lSeedPrices, lq, dCrit_Call, dCrit_Put,
                   lAme_Call, lAme_Put, solver, log>>

Next ==
    \/ NextScenario
    \/ RootsInf
    \/ Seed
    \/ Roots
    \/ CallEnter
    \/ CallIterate
    \/ CallReturn
    \/ PutEnter
    \/ PutIterate
    \/ PutReturn
    \/ PriceSpot
    \/ SpotsDone
    \/ Finish

Spec == Init /\ [][Next]_vars

\* ------------------------------------------------------------------------
\* Properties
\* ------------------------------------------------------------------------

Pricers == {"American_Call", "American_Put"}

\* the event of operation op in scenario k
EventOf(op, k) ==
    log[CHOOSE n \in 1..Len(log) : log[n].op = op /\ log[n].i = k]

\* C1: whenever a pricer is called with a finite critical price it returns
\* an American price, and when it is called with a spot equal to its critical
\* price that price is the intrinsic value (S - X for the call, X - S for
\* the put)
C1_BoundaryIsIntrinsic ==
    \A n \in 1..Len(log) :
        /\ (log[n].op \in Pricers /\ IsNum(log[n].arg[3]))
              => log[n].exc = "none"
        /\ (log[n].op = "American_Call" /\ log[n].arg[1] = log[n].arg[3])
              => log[n].ret[3] = FSub(log[n].arg[1], iX)
        /\ (log[n].op = "American_Put" /\ log[n].arg[1] = log[n].arg[3])
              => log[n].ret[2] = FSub(iX, log[n].arg[1])

\* C2: the while loop of a critical price solver always stops: it never
\* starts a pass at an iterate it has already started a pass at (a pass
\* depends on the iterate alone, so the loop would repeat the same passes
\* for ever)
C2_SolverTerminates ==
    ~(pc \in {"call_while", "put_while"}
        /\ FGt(dError, Tolerance)
        /\ dCrit \in seen)

\* C3: when a scenario fails with an exception after the scenarios before it
\* have been priced, the rows of those scenarios are in the returned result
C3_OtherScenariosReturned ==
    (pc = "raised" /\ i >= 2 /\ Len(vS) >= 1)
        => /\ Len(result) = 5
           /\ Len(result[1]) >= (i - 1) * Len(vS)

\* the root pair, the critical prices and the prices of scenario k at spot n,
\* computed from the arguments of Ame_Option_Price alone
RootsOf(k) == roots(db, vr[k], vT[k], vs[k]).q

SeedsOf(k) ==
    SeedPrices(roots(db, vr[k], PosInf, vs[k]).q, db, vT[k], vs[k], iX)

CallOf(k, n) ==
    American_Call(vS[n], RootsOf(k),
                  Critical_Call_Price(SeedsOf(k), RootsOf(k), iX, db,
                                      vs[k], vT[k], vr[k]),
                  iX, db, vs[k], vT[k], vr[k]).ret

PutOf(k, n) ==
    American_Put(vS[n], RootsOf(k),
                 Critical_Put_Price(SeedsOf(k), RootsOf(k), iX, db,
                                    vs[k], vT[k], vr[k]),
                 iX, db, vs[k], vT[k], vr[k]).ret

\* C4: the result returned for m scenarios and n spots is five columns of
\* m*n entries, and entry (k-1)*n + j of the columns is the spot vS[j] and
\* the four rounded prices of scenario k at vS[j]
C4_RowsScenarioMajor ==
    pc = "returned" =>
        /\ Len(result) = 5
        /\ \A c \in 1..5 : Len(result[c]) = Len(vT) * Len(vS)
        /\ \A k \in 1..Len(vT) : \A n \in 1..Len(vS) :
              /\ result[1][(k - 1) * Len(vS) + n] = vS[n]
              /\ result[2][(k - 1) * Len(vS) + n] = Round2(CallOf(k, n)[2])
              /\ result[3][(k - 1) * Len(vS) + n] = Round2(CallOf(k, n)[3])
              /\ result[4][(k - 1) * Len(vS) + n] = Round2(PutOf(k, n)[1])
              /\ result[5][(k - 1) * Len(vS) + n] = Round2(PutOf(k, n)[2])

\* a result was returned for two different scenarios and two different spots
C4_Witness ==
    /\ pc = "returned"
    /\ Len(vT) = 2
    /\ <<vT[1], vr[1], vs[1]>> # <<vT[2], vr[2], vs[2]>>
    /\ Len(vS) = 2
    /\ vS[1] # vS[2]

\* C5: SeedPrices called with an infinite-maturity root equal to 1 reports a
\* DomainError, and no critical price solver is ever given a seed that is
\* infinite or NaN
C5_DegenerateRootRejected ==
    \A n \in 1..Len(log) :
        /\ (log[n].op = "SeedPrices" /\ (log[n].arg[1] = F \/ log[n].arg[2] = F))
              => log[n].exc = "DomainError"
        /\ log[n].op \in {"Critical_Call_Price", "Critical_Put_Price"}
              => IsNum(log[n].arg[1])

\* the root pair [q_1, q_2] of q^2 + (N-1)q - M = 0
RootsKOne(b, r, s) ==
    Unpack(np_roots(FSub(FDiv(FMul(2 * F, b), FMul(s, s)), F),
                    FNeg(FDiv(FMul(2 * F, r), FMul(s, s)))))

\* C6: for every risk-free rate the infinite-maturity root pair is the root
\* pair of q^2 + (N-1)q - M = 0, that is of equation (13) with K = 1
C6_AsymptoticRootsUseKOne ==
    \A n \in 1..Len(log) :
        log[n].op = "roots_inf" =>
            /\ log[n].exc = "none"
            /\ log[n].ret = RootsKOne(db, log[n].arg[1], log[n].arg[2]).q

\* the operation that may follow operation a of the same scenario
Follows(a, b) ==
    \/ a.op = "roots_inf" /\ b.op = "SeedPrices"
    \/ a.op = "SeedPrices" /\ b.op = "roots"
    \/ a.op = "roots" /\ b.op = "Critical_Call_Price"
    \/ a.op = "Critical_Call_Price" /\ b.op = "Critical_Put_Price"
    \/ a.op = "Critical_Put_Price" /\ b.op = "American_Call" /\ b.j = 1
    \/ a.op = "American_Call" /\ b.op = "American_Put" /\ b.j = a.j
    \/ a.op = "American_Put" /\ b.op = "American_Call" /\ b.j = a.j + 1

\* the last operation of a scenario
Closes(a) ==
    \/ a.op = "American_Put" /\ a.j = Len(vS)
    \/ a.op = "Critical_Put_Price" /\ Len(vS) = 0

\* the solver whose critical price the pricer op is given
SolverOf(op) ==
    IF op = "American_Call" THEN "Critical_Call_Price"
    ELSE "Critical_Put_Price"

\* C7: in every scenario the calls are made in the order asymptotic roots,
\* seeds, roots, call critical price, put critical price, then the two pricers
\* spot by spot, each of the first five once; and every spot is priced with
\* the root pair and the critical prices the solvers returned for its own
\* scenario
C7_OncePerScenarioThenSpots ==
    /\ Len(log) >= 1 => (log[1].op = "roots_inf" /\ log[1].i = 1)
    /\ \A n \in 1..(Len(log) - 1) :
          \/ log[n + 1].i = log[n].i /\ Follows(log[n], log[n + 1])
          \/ /\ log[n + 1].i = log[n].i + 1
             /\ log[n + 1].op = "roots_inf"
             /\ Closes(log[n])
    /\ \A n \in 1..Len(log) :
          log[n].op \in Pricers =>
              /\ log[n].arg[1] = vS[log[n].j]
              /\ log[n].arg[2] = EventOf("roots", log[n].i).ret
              /\ log[n].arg[3] = EventOf(SolverOf(log[n].op), log[n].i).ret[1]

\* both spots of a second scenario have been priced
C7_Witness ==
    \E n \in 1..Len(log) :
        log[n].op = "American_Put" /\ log[n].i = 2 /\ log[n].j = 2

\* C8: the critical price a solver returns is the iterate at which dError
\* was measured when the loop condition failed
C8_ReturnsMeasuredIterate ==
    /\ pc = "Critical_Put_Price" => dCrit_Call = dMeasured
    /\ (pc = "for_j" /\ j = 0) => dCrit_Put = dMeasured

\* db_i of eq (27) with the density divided by ds*np.sqrt(dT)
AnalyticSlope(d, q, b, s, T, r) ==
    FAdd(FMul(FMul(np_exp(FMul(FSub(b, r), T)), norm_cdf(d)),
              FSub(F, FDiv(F, q))),
         FDiv(FSub(F, FDiv(FMul(np_exp(FMul(FSub(b, r), T)), norm_pdf(d)),
                           FMul(s, np_sqrt(T)))),
              q))

\* C9: the slope db_i of every iteration is the analytic derivative, the
\* normal density being divided by ds*sqrt(dT), for every dT
C9_SlopeIsAnalytic ==
    /\ (pc = "call_while" /\ dMeasured # Unbound)
          => db_i = AnalyticSlope(D1(dMeasured, iX, db, ds, dT), lq[2],
                                  db, ds, dT, dr)
    /\ (pc = "put_while" /\ dMeasured # Unbound)
          => db_i = AnalyticSlope(FNeg(D1(dMeasured, iX, db, ds, dT)), lq[1],
                                  db, ds, dT, dr)

\* C10: with no scenario or no spot, Ame_Option_Price, once no scenario has
\* failed, returns five empty columns
C10_EmptyInputReturnsEmpty ==
    (Len(vT) * Len(vS) = 0 /\ pc \in {"returned", "raised"}
        /\ exc \notin {"LinAlgError", "UnboundLocalError"})
        => /\ pc = "returned"
           /\ result = << <<>>, <<>>, <<>>, <<>>, <<>> >>
====
